---- MODULE Spec2Model ----
(***************************************************************************)
(* A model of xml-canonical: the flat, depth-encoded tree (xml_tree/src/    *)
(* tree.rs) and the quick_xml event-driven builder (qick-xml-mapper/src/    *)
(* quick_reader.rs).                                                        *)
(*                                                                          *)
(* Conventions.                                                             *)
(*  - Option<T> is a sequence: None is <<>>, Some(x) is <<x>>.              *)
(*  - Indices are 0-based as in the source; the TLA+ sequences are 1-based, *)
(*    so the node with index i is nodes[i + 1].                             *)
(*  - A raw byte fragment of the tokenizer is a string; the string INVALID  *)
(*    stands for any byte sequence that is not valid UTF-8.                 *)
(*  - An attribute key is the sequence of its ':'-separated segments:       *)
(*    "xmlns" is <<"xmlns">>, "xmlns:p" is <<"xmlns", "p">>, "p:x" is       *)
(*    <<"p", "x">>. Keys of the model have one or two segments.             *)
(***************************************************************************)
EXTENDS Integers, Sequences, FiniteSets, TLC

VARIABLES
  nodes,          \* FlatTree.nodes: Vec<XNode>
  depth,          \* FlatTree.depth: Vec<u8>, parallel to nodes
  namespaces,     \* FlatTree.namespaces: Vec<(prefix, uri)>
  namespace_map,  \* FlatTree.namespace_map: BTreeMap<prefix, usize>
  node_stack,     \* read: the ancestor stack, top at the end
  current_node,   \* read: the current handle (a Node's index)
  pc,             \* read: "loop", "returned_ok", "returned_err" or "panicked"
  event,          \* the event read_event_into returned last
  open,           \* tokenizer: the elements opened and not yet closed, top at the end
  wellFormed,     \* tokenizer: every EndTag so far closed the innermost open element
  nesting,        \* tokenizer: the deepest element nesting so far, empty elements included
  declFirst,      \* history: prefix -> [id, uri] of its first add_namespace call
  declLast,       \* history: prefix -> uri of its latest add_namespace call
  lastCalls       \* history: the add_namespace calls of the last event, in order

treeVars == <<nodes, depth, namespaces, namespace_map>>
readVars == <<node_stack, current_node, pc>>
inputVars == <<event, open, wellFormed, nesting>>
historyVars == <<declFirst, declLast, lastCalls>>
vars == <<nodes, depth, namespaces, namespace_map, node_stack, current_node, pc,
          event, open, wellFormed, nesting, declFirst, declLast, lastCalls>>

----------------------------------------------------------------------------
(* Bounds of the model and constants of the program.                        *)

\* The general specification appends at most MaxNodes nodes.
MaxNodes == 3

\* The deep specification opens DeepChain nested elements, then reads up to
\* DeepTail further appending events.
DeepChain == 255
DeepTail == 2

\* u8: the width of a stored depth (tree.rs, depth: Vec<u8>).
U8_MODULUS == 256
\* u16::MAX: the largest namespace id (tree.rs, add_namespace).
U16_MAX == 65535
\* usize::MAX, the index of the sentinel handle. It stands for a value above
\* every length a tree can have.
USIZE_MAX == 1000000000

None == <<>>
Some(x) == <<x>>

\* A byte fragment that is not valid UTF-8.
INVALID == "<invalid utf-8>"

\* std::str::from_utf8(raw).unwrap_or("")
from_utf8_or_empty(raw) == IF raw = INVALID THEN "" ELSE raw

\* std::str::from_utf8(key).unwrap_or("") on an attribute key: a key with an
\* invalid byte anywhere is the empty string, which has the one segment "".
key_from_utf8(key) ==
  IF \E i \in DOMAIN key : key[i] = INVALID THEN <<"">> ELSE key

----------------------------------------------------------------------------
(* FlatTree: the namespace registry.  A registry is the record              *)
(* [namespaces, namespace_map] so that build_tag can thread it through its  *)
(* attribute loop.                                                          *)

Registry == [namespaces |-> namespaces, namespace_map |-> namespace_map]

\* A plausible slip: a known prefix is rebound to the new uri (last write wins).
add_namespace_rebind(reg, prefix, uri) ==
  IF prefix \in DOMAIN reg.namespace_map
  THEN LET id == reg.namespace_map[prefix]
       IN  [reg |-> [reg EXCEPT !.namespaces[id + 1] = <<prefix, uri>>],
            ret |-> Some(id)]
  ELSE LET id == Len(reg.namespaces)
       IN  IF id > U16_MAX
           THEN [reg |-> reg, ret |-> None]
           ELSE [reg |-> [namespaces |-> Append(reg.namespaces, <<prefix, uri>>),
                          namespace_map |-> (prefix :> id) @@ reg.namespace_map],
                 ret |-> Some(id)]

\* A plausible slip: every call appends an entry, known prefix or not.
add_namespace_always_new(reg, prefix, uri) ==
  LET id == Len(reg.namespaces)
  IN  IF id > U16_MAX
      THEN [reg |-> reg, ret |-> None]
      ELSE [reg |-> [namespaces |-> Append(reg.namespaces, <<prefix, uri>>),
                     namespace_map |-> (prefix :> id) @@ reg.namespace_map],
            ret |-> Some(id)]

\* A plausible slip: the registry is full one entry early (>= for >).
add_namespace_full_early(reg, prefix, uri) ==
  IF prefix \in DOMAIN reg.namespace_map
  THEN [reg |-> reg, ret |-> Some(reg.namespace_map[prefix] % (U16_MAX + 1))]
  ELSE LET id == Len(reg.namespaces)
       IN  IF id >= U16_MAX
           THEN [reg |-> reg, ret |-> None]
           ELSE [reg |-> [namespaces |-> Append(reg.namespaces, <<prefix, uri>>),
                          namespace_map |-> (prefix :> id) @@ reg.namespace_map],
                 ret |-> Some(id % (U16_MAX + 1))]

\* FlatTree::add_namespace: the registry after the call and the id returned.
add_namespace(reg, prefix, uri) ==
  IF prefix \in DOMAIN reg.namespace_map
  THEN [reg |-> reg, ret |-> Some(reg.namespace_map[prefix] % (U16_MAX + 1))]
  ELSE LET id == Len(reg.namespaces)
       IN  IF id > U16_MAX
           THEN [reg |-> reg, ret |-> None]
           ELSE [reg |-> [namespaces |-> Append(reg.namespaces, <<prefix, uri>>),
                          namespace_map |-> (prefix :> id) @@ reg.namespace_map],
                 ret |-> Some(id % (U16_MAX + 1))]

\* FlatTree::get_namespace
get_namespace(reg, id) ==
  IF id = None THEN None
  ELSE IF id[1] < Len(reg.namespaces) THEN Some(reg.namespaces[id[1] + 1])
  ELSE None

\* A plausible slip: an unknown prefix resolves to the first namespace.
find_namespace_defaulting(reg, prefix) ==
  IF prefix = None THEN None
  ELSE IF prefix[1] \in DOMAIN reg.namespace_map
       THEN Some(reg.namespace_map[prefix[1]] % (U16_MAX + 1))
       ELSE IF reg.namespaces = <<>> THEN None ELSE Some(0)

\* FlatTree::find_namespace: prefix is an Option<&str>.
find_namespace(reg, prefix) ==
  IF prefix = None THEN None
  ELSE IF prefix[1] \in DOMAIN reg.namespace_map
       THEN Some(reg.namespace_map[prefix[1]] % (U16_MAX + 1))
       ELSE None

----------------------------------------------------------------------------
(* Node: the cursor.  A handle is its index.                                *)

\* Node::is_sentinel
is_sentinel(h) == h = USIZE_MAX

\* FlatTree::len
len == Len(nodes)

\* FlatTree::as_node
as_node == IF len # 0 THEN len - 1 ELSE USIZE_MAX

\* Node::is_valid
is_valid(h) == ~is_sentinel(h) /\ h < len

\* FlatTree::value / Node::value: nodes.get(index)
value(index) == IF index < len THEN Some(nodes[index + 1]) ELSE None

\* Node::depth
Node_depth(h) == IF is_sentinel(h) \/ h >= len THEN 0 ELSE depth[h + 1]

\* A plausible slip: the comparison ignores the namespace.
compare_name_ignoring_namespace(h, target_namespace, target_name) ==
  LET node == value(h)
  IN  IF node = None THEN FALSE
      ELSE IF node[1].kind = "Tag" THEN target_name = node[1].name
      ELSE FALSE

\* Node::compare_name
compare_name(h, target_namespace, target_name) ==
  LET node == value(h)
  IN  IF node = None THEN FALSE
      ELSE IF node[1].kind = "Tag"
           THEN target_namespace = node[1].namespace /\ target_name = node[1].name
           ELSE FALSE

----------------------------------------------------------------------------
(* FlatTree: searching by name.  A name is the sequence of its              *)
(* ':'-separated segments, as an attribute key is.                          *)

\* The names find_node is asked for.
FindTargets == { <<"a">>, <<"b">>, <<"p", "a">>, <<"q", "a">>, <<"", "a">> }

\* FlatTree::find_node_by_name: the scan from index i on.
RECURSIVE find_node_by_name_from(_, _)
find_node_by_name_from(i, target_name) ==
  IF i >= len THEN None
  ELSE IF nodes[i + 1].kind = "Tag" /\ target_name = nodes[i + 1].name
       THEN Some(i)
       ELSE find_node_by_name_from(i + 1, target_name)

\* FlatTree::find_node_by_name
find_node_by_name(target_name) == find_node_by_name_from(0, target_name)

\* FlatTree::find_namespaced_node_by_name: the scan from index i on.
RECURSIVE find_namespaced_node_by_name_from(_, _, _)
find_namespaced_node_by_name_from(i, target_namespace, target_name) ==
  IF i >= len THEN None
  ELSE IF /\ nodes[i + 1].kind = "Tag"
          /\ target_name = nodes[i + 1].name
          /\ target_namespace = nodes[i + 1].namespace
       THEN Some(i)
       ELSE find_namespaced_node_by_name_from(i + 1, target_namespace, target_name)

\* FlatTree::find_namespaced_node_by_name
find_namespaced_node_by_name(target_namespace, target_name) ==
  find_namespaced_node_by_name_from(0, target_namespace, target_name)

\* FlatTree::find_node: a name with a ':' is split, its first segment is
\* resolved by find_namespace and the second is searched in that namespace.
find_node(target_name) ==
  IF Len(target_name) >= 2
  THEN LET ns == target_name[1]
           name == target_name[2]
           ns_index == find_namespace(Registry, Some(ns))
       IN  find_namespaced_node_by_name(ns_index, name)
  ELSE find_node_by_name(target_name[1])

----------------------------------------------------------------------------
(* Appending.                                                               *)

\* Node::push, line 242: self.depth(tree) + 1, before the u8 store.
child_depth(d) == d + 1

\* Node::push: the depths `self.depth(tree) + 1` can produce as a u8.  The sum
\* overflows at 255: a build with overflow checks panics (None), a build
\* without them wraps around.
Node_push_depths(h) ==
  LET d == child_depth(Node_depth(h))
  IN  IF d < U8_MODULUS THEN {Some(d)} ELSE {None, Some(d % U8_MODULUS)}

\* FlatTree::push_depth: the handle returned is the index of the new node.
push_depth_position == Len(nodes)

----------------------------------------------------------------------------
(* Node: navigation over the depth array.                                   *)

\* A plausible slip: an invalid handle's subtree ends at the end of the tree.
subtree_end_whole_tree(h) ==
  LET scan[i \in 0..len] ==
        IF i < len /\ depth[i + 1] > depth[h + 1] THEN scan[i + 1] ELSE i
  IN  IF ~is_valid(h) THEN len ELSE scan[h + 1]

\* Node::subtree_end: the index one past the last descendant.
subtree_end(h) ==
  LET scan[i \in 0..len] ==
        IF i < len /\ depth[i + 1] > depth[h + 1] THEN scan[i + 1] ELSE i
  IN  IF ~is_valid(h) THEN 0 ELSE scan[h + 1]

\* Node::parent: the backward scan for the depth d - 1.
parent(h) ==
  LET d == Node_depth(h)
      scan[i \in 0..len] ==
        IF i > 0
        THEN IF depth[(i - 1) + 1] = d - 1 THEN Some(i - 1) ELSE scan[i - 1]
        ELSE None
  IN  IF d = 0 THEN None ELSE scan[h]

\* Node::children: the results the call can have.  The target depth is
\* `self.depth(tree) + 1` in u8, as in Node::push: at depth 255 the call
\* panics (None) or scans for the wrapped target.
children(h) ==
  IF ~is_valid(h) THEN {Some(<<>>)}
  ELSE LET end == subtree_end(h)
           found(target) ==
             LET scan[i \in 0..len] ==
                   IF i < end
                   THEN (IF depth[i + 1] = target THEN <<i>> ELSE <<>>) \o scan[i + 1]
                   ELSE <<>>
             IN  scan[h + 1]
       IN  { IF target = None THEN None ELSE Some(found(target[1])) :
               target \in Node_push_depths(h) }

\* Node::next_sibling
next_sibling(h) ==
  IF ~is_valid(h) THEN None
  ELSE LET d == Node_depth(h)
           end == subtree_end(h)
       IN  IF end < len /\ depth[end + 1] = d THEN Some(end) ELSE None

\* A plausible slip: the backward scan does not skip the nodes of the
\* previous sibling's subtree and looks at the preceding index only.
prev_sibling_not_skipping(h) ==
  IF ~is_valid(h) \/ h = 0 THEN None
  ELSE IF depth[(h - 1) + 1] = Node_depth(h) THEN Some(h - 1) ELSE None

\* Node::prev_sibling
prev_sibling(h) ==
  IF ~is_valid(h) \/ h = 0 THEN None
  ELSE LET d == Node_depth(h)
           scan[i \in 0..len] ==
             LET id == depth[i + 1]
             IN  IF id < d THEN None
                 ELSE IF id = d THEN Some(i)
                 ELSE IF i = 0 THEN None
                 ELSE scan[i - 1]
       IN  scan[h - 1]

\* Node::ancestors: the loop, from the Option<Node> `current` on.
RECURSIVE ancestors_from(_)
ancestors_from(current) ==
  IF current = None THEN <<>>
  ELSE <<current[1]>> \o ancestors_from(parent(current[1]))

\* Node::ancestors
ancestors(h) == ancestors_from(parent(h))

\* Node::descendants: the handles self.index + 1 .. end.
descendants(h) ==
  IF ~is_valid(h) THEN <<>>
  ELSE LET end == subtree_end(h)
       IN  IF end <= h + 1 THEN <<>>
           ELSE [k \in 1..(end - (h + 1)) |-> h + k]

----------------------------------------------------------------------------
(* build_tag                                                                *)

\* format_tag_name: split(':'), the first two segments.
format_tag_name(key) ==
  IF Len(key) < 2
  THEN [prefix |-> None, name |-> key[1]]
  ELSE [prefix |-> Some(key[1]), name |-> key[2]]

\* A plausible slip: an existing key keeps its entry (entry().or_insert).
map_insert_keeping_first(m, k, v) == m @@ (k :> v)

\* BTreeMap::insert
map_insert(m, k, v) == (k :> v) @@ m

\* build_tag, lines 99-122: the attribute loop from attribute i on.  st is
\* [reg, attributes, ns_id, calls]; calls lists the add_namespace calls made.
RECURSIVE build_tag_loop(_, _, _)
build_tag_loop(st, attrs, i) ==
  IF i > Len(attrs) THEN st
  ELSE
    LET attr == attrs[i]
    IN  IF ~attr.ok THEN build_tag_loop(st, attrs, i + 1)
        ELSE
          LET key == key_from_utf8(attr.key)
              val == from_utf8_or_empty(attr.value)
          IN  IF key = <<"xmlns">>
              THEN LET r == add_namespace(st.reg, "", val)
                   IN  build_tag_loop(
                         [st EXCEPT !.reg = r.reg, !.ns_id = r.ret,
                            !.calls = Append(@, [prefix |-> "", uri |-> val, ret |-> r.ret])],
                         attrs, i + 1)
              ELSE IF Len(key) >= 2 /\ key[1] = "xmlns"
              THEN LET r == add_namespace(st.reg, key[2], val)
                   IN  build_tag_loop(
                         [st EXCEPT !.reg = r.reg,
                            !.calls = Append(@, [prefix |-> key[2], uri |-> val, ret |-> r.ret])],
                         attrs, i + 1)
              ELSE LET f == format_tag_name(key)
                   IN  build_tag_loop(
                         [st EXCEPT !.attributes =
                            map_insert(@, f.name,
                              [namespace |-> find_namespace(st.reg, f.prefix),
                               value |-> val])],
                         attrs, i + 1)

\* e.name().decompose() followed by from_utf8(..).unwrap_or("") on each part.
decoded_prefix(e) ==
  IF e.prefix = None THEN None ELSE Some(from_utf8_or_empty(e.prefix[1]))

\* build_tag: the tag node, the registry after the xmlns declarations, and
\* the add_namespace calls made.
build_tag(reg, e) ==
  LET local == from_utf8_or_empty(e.local)
      prefix_owned == decoded_prefix(e)
      st == build_tag_loop(
              [reg |-> reg, attributes |-> <<>>, ns_id |-> None, calls |-> <<>>],
              e.attributes, 1)
  IN  [xnode |->
         [kind |-> "Tag",
          namespace |-> IF st.ns_id # None THEN st.ns_id
                        ELSE find_namespace(st.reg, prefix_owned),
          name |-> local,
          attributes |-> IF DOMAIN st.attributes = {} THEN None
                         ELSE Some(st.attributes)],
       reg |-> st.reg,
       calls |-> st.calls]

----------------------------------------------------------------------------
(* History of the registrations, kept beside the program.                   *)

RECURSIVE record_first(_, _, _)
record_first(first, calls, i) ==
  IF i > Len(calls) THEN first
  ELSE LET c == calls[i]
       IN  record_first(
             IF c.prefix \in DOMAIN first \/ c.ret = None THEN first
             ELSE map_insert(first, c.prefix, [id |-> c.ret[1], uri |-> c.uri]),
             calls, i + 1)

RECURSIVE record_last(_, _, _)
record_last(last, calls, i) ==
  IF i > Len(calls) THEN last
  ELSE record_last(map_insert(last, calls[i].prefix, calls[i].uri), calls, i + 1)

RecordCalls(calls) ==
  /\ declFirst' = record_first(declFirst, calls, 1)
  /\ declLast' = record_last(declLast, calls, 1)
  /\ lastCalls' = calls

Max(a, b) == IF a >= b THEN a ELSE b

----------------------------------------------------------------------------
(* The inputs: the events the tokenizer hands to read.                      *)

Attr(key, val) == [ok |-> TRUE, key |-> key, value |-> val]

TagEvent(prefix, local, attrs) ==
  [prefix |-> prefix, local |-> local, attributes |-> attrs]

\* The start tags of the general specification.
StartTags ==
  { TagEvent(None, "a", <<>>),
    TagEvent(None, "b", <<>>),
    TagEvent(Some("p"), "a", <<>>),
    TagEvent(None, "a", <<Attr(<<"xmlns">>, "u1")>>),
    TagEvent(None, "b", <<Attr(<<"xmlns", "p">>, "u1")>>),
    TagEvent(Some("p"), "a", <<Attr(<<"xmlns", "p">>, "u2")>>) }

\* The empty tags of the general specification.
EmptyTags ==
  { TagEvent(None, "a", <<>>),
    TagEvent(None, "a", <<Attr(<<"xmlns">>, "u2")>>),
    TagEvent(None, "b", <<Attr(<<"xmlns", "p">>, "u1")>>) }

\* The end tags of the general specification.
EndNames ==
  { [prefix |-> None, local |-> "a"],
    [prefix |-> None, local |-> "b"],
    [prefix |-> Some("p"), local |-> "a"] }

\* The content of a text or comment event, as raw bytes.
Contents == {"t", INVALID}

\* The (target, content) of a processing instruction, as raw bytes.
Instructions == { [target |-> "pi", content |-> ""],
                  [target |-> "pi", content |-> " d "] }

\* The inputs of the deep specification.
DeepTags == { TagEvent(None, "a", <<>>) }
DeepEndNames == { [prefix |-> None, local |-> "a"] }
DeepContents == {"t"}
DeepInstructions == { [target |-> "pi", content |-> " d "] }

\* str::trim on the contents the model uses.
trim(s) == IF s = " d " THEN "d" ELSE IF s = " " THEN "" ELSE s

----------------------------------------------------------------------------
(* read: one action per arm of the match on the event.                      *)

Init ==
  /\ nodes = <<>>
  /\ depth = <<>>
  /\ namespaces = <<>>
  /\ namespace_map = <<>>
  /\ node_stack = <<>>
  /\ current_node = USIZE_MAX
  /\ pc = "loop"
  /\ event = [kind |-> "None"]
  /\ open = <<>>
  /\ wellFormed = TRUE
  /\ nesting = 0
  /\ declFirst = <<>>
  /\ declLast = <<>>
  /\ lastCalls = <<>>

\* A plausible slip: the node and its depth are inserted at the front.
PushOrPanic_at_front(xnode, d) ==
  IF d = None
  THEN /\ pc' = "panicked"
       /\ UNCHANGED <<nodes, depth>>
  ELSE /\ pc' = pc
       /\ nodes' = <<xnode>> \o nodes
       /\ depth' = <<d[1]>> \o depth

\* current_node.push(&mut tree, xnode) with outcome d of Node_push_depths:
\* the append, or the panic of the overflowing addition.
PushOrPanic(xnode, d) ==
  IF d = None
  THEN /\ pc' = "panicked"
       /\ UNCHANGED <<nodes, depth>>
  ELSE /\ pc' = pc
       /\ nodes' = Append(nodes, xnode)
       /\ depth' = Append(depth, d[1])

\* Event::Start
StartTag(e) ==
  /\ pc = "loop"
  /\ LET b == build_tag(Registry, e)
     IN  /\ namespaces' = b.reg.namespaces
         /\ namespace_map' = b.reg.namespace_map
         /\ node_stack' = Append(node_stack, current_node)
         /\ \E d \in Node_push_depths(current_node) :
              /\ PushOrPanic(b.xnode, d)
              /\ current_node' = IF d = None THEN current_node ELSE push_depth_position
         /\ RecordCalls(b.calls)
  /\ event' = [kind |-> "Start", prefix |-> e.prefix, local |-> e.local]
  /\ open' = Append(open, [prefix |-> e.prefix, local |-> e.local,
                           before |-> current_node])
  /\ nesting' = Max(nesting, Len(open) + 1)
  /\ UNCHANGED wellFormed

\* Event::End
EndTag(e) ==
  /\ pc = "loop"
  /\ LET local == from_utf8_or_empty(e.local)
         prefix_owned == decoded_prefix(e)
         ns_id == find_namespace(Registry, prefix_owned)
     IN  IF compare_name(current_node, ns_id, local) /\ node_stack # <<>>
         THEN /\ current_node' = node_stack[Len(node_stack)]
              /\ node_stack' = SubSeq(node_stack, 1, Len(node_stack) - 1)
         ELSE UNCHANGED <<node_stack, current_node>>
  /\ UNCHANGED <<treeVars, pc>>
  /\ event' = [kind |-> "End", prefix |-> e.prefix, local |-> e.local]
  /\ LET closesTop == /\ open # <<>>
                      /\ open[Len(open)].prefix = e.prefix
                      /\ open[Len(open)].local = e.local
     IN  /\ open' = IF closesTop THEN SubSeq(open, 1, Len(open) - 1) ELSE open
         /\ wellFormed' = (wellFormed /\ closesTop)
  /\ UNCHANGED nesting
  /\ RecordCalls(<<>>)

\* Event::Empty
EmptyTag(e) ==
  /\ pc = "loop"
  /\ LET b == build_tag(Registry, e)
     IN  /\ namespaces' = b.reg.namespaces
         /\ namespace_map' = b.reg.namespace_map
         /\ \E d \in Node_push_depths(current_node) : PushOrPanic(b.xnode, d)
         /\ RecordCalls(b.calls)
  /\ UNCHANGED <<node_stack, current_node>>
  /\ event' = [kind |-> "Empty", prefix |-> e.prefix, local |-> e.local]
  /\ nesting' = Max(nesting, Len(open) + 1)
  /\ UNCHANGED <<open, wellFormed>>

\* Event::Text and Event::Comment: e.decode()? returns the error of a content
\* that does not decode.
Content(kind, raw) ==
  /\ pc = "loop"
  /\ IF raw = INVALID
     THEN /\ pc' = "returned_err"
          /\ UNCHANGED <<nodes, depth>>
     ELSE \E d \in Node_push_depths(current_node) :
            PushOrPanic([kind |-> kind, content |-> raw], d)
  /\ UNCHANGED <<namespaces, namespace_map, node_stack, current_node>>
  /\ event' = [kind |-> kind, raw |-> raw]
  /\ UNCHANGED <<open, wellFormed, nesting>>
  /\ RecordCalls(<<>>)

\* Event::Text
Text(raw) == Content("Text", raw)

\* Event::Comment
Comment(raw) == Content("Comment", raw)

\* Event::PI
ProcessingInstruction(e) ==
  /\ pc = "loop"
  /\ LET target == from_utf8_or_empty(e.target)
         data == IF e.content = "" THEN None
                 ELSE Some(trim(from_utf8_or_empty(e.content)))
     IN  \E d \in Node_push_depths(current_node) :
           PushOrPanic([kind |-> "ProcessingInstruction",
                        target |-> target, data |-> data], d)
  /\ UNCHANGED <<namespaces, namespace_map, node_stack, current_node>>
  /\ event' = [kind |-> "PI"]
  /\ UNCHANGED <<open, wellFormed, nesting>>
  /\ RecordCalls(<<>>)

\* A plausible slip: elements left open at the end of the stream are an error.
Eof_rejecting_unclosed ==
  /\ pc = "loop"
  /\ pc' = IF node_stack = <<>> THEN "returned_ok" ELSE "returned_err"
  /\ UNCHANGED <<treeVars, node_stack, current_node>>
  /\ event' = [kind |-> "Eof"]
  /\ UNCHANGED <<open, wellFormed, nesting>>
  /\ RecordCalls(<<>>)

\* Event::Eof: break, then Ok(tree)
Eof ==
  /\ pc = "loop"
  /\ pc' = "returned_ok"
  /\ UNCHANGED <<treeVars, node_stack, current_node>>
  /\ event' = [kind |-> "Eof"]
  /\ UNCHANGED <<open, wellFormed, nesting>>
  /\ RecordCalls(<<>>)

\* The arm `_ => {}`: CData, Decl, DocType and the other events read ignores.
OtherEvent ==
  /\ pc = "loop"
  /\ UNCHANGED <<treeVars, readVars>>
  /\ event' = [kind |-> "Other"]
  /\ UNCHANGED <<open, wellFormed, nesting>>
  /\ RecordCalls(<<>>)

\* A plausible slip: the tokenizer's error is skipped and the loop goes on.
ReaderError_skipped ==
  /\ pc = "loop"
  /\ pc' = "loop"
  /\ UNCHANGED <<treeVars, node_stack, current_node>>
  /\ event' = [kind |-> "Error"]
  /\ UNCHANGED <<open, wellFormed, nesting>>
  /\ RecordCalls(<<>>)

\* reader.read_event_into(buf)? returns the tokenizer's error.
ReaderError ==
  /\ pc = "loop"
  /\ pc' = "returned_err"
  /\ UNCHANGED <<treeVars, node_stack, current_node>>
  /\ event' = [kind |-> "Error"]
  /\ UNCHANGED <<open, wellFormed, nesting>>
  /\ RecordCalls(<<>>)

\* Any event stream that appends at most MaxNodes nodes.
Next ==
  \/ \E e \in StartTags : len < MaxNodes /\ StartTag(e)
  \/ \E e \in EndNames : EndTag(e)
  \/ \E e \in EmptyTags : len < MaxNodes /\ EmptyTag(e)
  \/ \E raw \in Contents : len < MaxNodes /\ Text(raw)
  \/ \E raw \in Contents : len < MaxNodes /\ Comment(raw)
  \/ \E e \in Instructions : len < MaxNodes /\ ProcessingInstruction(e)
  \/ Eof
  \/ OtherEvent
  \/ ReaderError

Spec == Init /\ [][Next]_vars

\* The event streams that open DeepChain nested elements and then go on with
\* any events, up to DeepTail further appends, closing none of the first
\* DeepChain - 1 elements.
DeepPhase == len >= DeepChain /\ len < DeepChain + DeepTail

NextDeep ==
  \/ \E e \in DeepTags : len < DeepChain + DeepTail /\ StartTag(e)
  \/ \E e \in DeepEndNames : len >= DeepChain /\ Len(open) >= DeepChain /\ EndTag(e)
  \/ \E e \in DeepTags : DeepPhase /\ EmptyTag(e)
  \/ \E raw \in DeepContents : DeepPhase /\ Text(raw)
  \/ \E raw \in DeepContents : DeepPhase /\ Comment(raw)
  \/ \E e \in DeepInstructions : DeepPhase /\ ProcessingInstruction(e)
  \/ len >= DeepChain /\ Eof
  \/ len >= DeepChain /\ OtherEvent
  \/ len >= DeepChain /\ ReaderError

SpecDeep == Init /\ [][NextDeep]_vars

----------------------------------------------------------------------------
(* The event streams of sibling elements: each element declares the default *)
(* namespace and is closed before the next one opens, so the input never    *)
(* nests deeper than one level.                                             *)

\* <a xmlns="u1">
SiblingTags == { TagEvent(None, "a", <<Attr(<<"xmlns">>, "u1")>>) }
\* </a>
SiblingEndNames == { [prefix |-> None, local |-> "a"] }

NextSiblings ==
  \/ \E e \in SiblingTags :
       open = <<>> /\ len < DeepChain + DeepTail /\ StartTag(e)
  \/ \E e \in SiblingEndNames : open # <<>> /\ EndTag(e)

SpecSiblings == Init /\ [][NextSiblings]_vars

----------------------------------------------------------------------------
(* The registry used on its own: any sequence of add_namespace calls on a   *)
(* new tree, as in tests::namespace_registry.                               *)

\* The prefixes and uris the calls draw from; "" is the default prefix.
RegistryPrefixes == {"", "p", "q"}
RegistryUris == {"u1", "u2"}

\* tree.add_namespace(prefix, uri)
Register(prefix, uri) ==
  /\ LET r == add_namespace(Registry, prefix, uri)
     IN  /\ namespaces' = r.reg.namespaces
         /\ namespace_map' = r.reg.namespace_map
         /\ RecordCalls(<<[prefix |-> prefix, uri |-> uri, ret |-> r.ret]>>)
  /\ UNCHANGED <<nodes, depth, readVars, inputVars>>

NextRegistry ==
  \E prefix \in RegistryPrefixes, uri \in RegistryUris : Register(prefix, uri)

SpecRegistry == Init /\ [][NextRegistry]_vars

----------------------------------------------------------------------------
(* The registry near its capacity: the tree after add_namespace was called  *)
(* with FullStart distinct prefixes, then any further calls.  Here a prefix *)
(* is a number: k stands for the k-th of the distinct prefix strings the    *)
(* caller uses.  The first FullStart entries never change, so the state     *)
(* holds the entries after them: in this specification `namespaces` and     *)
(* `namespace_map` are the registry's entries from index FullStart on, and  *)
(* FullRegistry is the registry add_namespace works on.                     *)

\* The free ids the registry starts with.
RegistryHeadroom == 2

\* The number of prefixes registered at the start.
FullStart == U16_MAX + 1 - RegistryHeadroom

\* The registry after add_namespace(k, "u1") for k = 0 .. FullStart - 1.
StartNamespaces == [i \in 1..FullStart |-> <<i - 1, "u1">>]
StartNamespaceMap == [p \in 0..(FullStart - 1) |-> p]

FullRegistry ==
  [namespaces |-> StartNamespaces \o namespaces,
   namespace_map |-> namespace_map @@ StartNamespaceMap]

\* The prefixes the further calls draw from: the first and the last of the
\* registered ones, and four new ones, more than there are free ids.
FullPrefixes == {0, FullStart - 1} \cup ((U16_MAX + 2)..(U16_MAX + 5))
FullUris == {"u2"}

\* tree.add_namespace(prefix, uri) on the full registry.  The history is
\* that of the prefixes registered after the start.
RegisterFull(prefix, uri) ==
  /\ LET r == add_namespace(FullRegistry, prefix, uri)
         calls == <<[prefix |-> prefix, uri |-> uri, ret |-> r.ret]>>
     IN  /\ namespaces' = SubSeq(r.reg.namespaces, FullStart + 1,
                                 Len(r.reg.namespaces))
         /\ namespace_map' =
              [p \in {r.reg.namespaces[i][1] :
                        i \in (FullStart + 1)..Len(r.reg.namespaces)} |->
                 r.reg.namespace_map[p]]
         /\ IF prefix \in DOMAIN StartNamespaceMap
            THEN lastCalls' = calls /\ UNCHANGED <<declFirst, declLast>>
            ELSE RecordCalls(calls)
  /\ UNCHANGED <<nodes, depth, readVars, inputVars>>

NextFull ==
  \E prefix \in FullPrefixes, uri \in FullUris : RegisterFull(prefix, uri)

SpecFull == Init /\ [][NextFull]_vars

----------------------------------------------------------------------------
(* The builder on tags that carry declarations and attributes together.     *)

\* The specification of the attributes reads at most MaxTags tags.
MaxTags == 2

\* Its start and empty tags: <p:a xmlns="u1" xmlns:p="u2">, <p:a xmlns="u1">,
\* <b xmlns:p="u2">, <p:a>, <a>, <a x="v">, a tag whose name, attribute
\* key and attribute value are not valid UTF-8, <a p:x="v" xmlns:p="u2">,
\* <a xmlns:p="u2" p:x="v">, <a q:x="v">, <a p:x="1" x="2"> and
\* <a x="1" p:x="2">.
AttrTags ==
  { TagEvent(Some("p"), "a", <<Attr(<<"xmlns">>, "u1"), Attr(<<"xmlns", "p">>, "u2")>>),
    TagEvent(Some("p"), "a", <<Attr(<<"xmlns">>, "u1")>>),
    TagEvent(None, "b", <<Attr(<<"xmlns", "p">>, "u2")>>),
    TagEvent(Some("p"), "a", <<>>),
    TagEvent(None, "a", <<>>),
    TagEvent(None, "a", <<Attr(<<"x">>, "v")>>),
    TagEvent(None, INVALID, <<Attr(<<INVALID>>, INVALID)>>),
    TagEvent(None, "a", <<Attr(<<"p", "x">>, "v"), Attr(<<"xmlns", "p">>, "u2")>>),
    TagEvent(None, "a", <<Attr(<<"xmlns", "p">>, "u2"), Attr(<<"p", "x">>, "v")>>),
    TagEvent(None, "a", <<Attr(<<"q", "x">>, "v")>>),
    TagEvent(None, "a", <<Attr(<<"p", "x">>, "1"), Attr(<<"x">>, "2")>>),
    TagEvent(None, "a", <<Attr(<<"x">>, "1"), Attr(<<"p", "x">>, "2")>>) }

NextAttrs ==
  \/ \E e \in AttrTags : len < MaxTags /\ StartTag(e)
  \/ \E e \in AttrTags : len < MaxTags /\ EmptyTag(e)

SpecAttrs == Init /\ [][NextAttrs]_vars

----------------------------------------------------------------------------
(* The storage used on its own: any sequence of the public appends,         *)
(* FlatTree::push and Node::push through any handle.                        *)

\* The storage specification appends at most MaxPushes nodes.
MaxPushes == 4

\* The nodes it appends.
StoredNodes ==
  { [kind |-> "Tag", name |-> "a", namespace |-> None, attributes |-> None],
    [kind |-> "Text", content |-> "t"] }

\* The handles a caller can hold: the sentinel, the valid ones, and one whose
\* index is not below the length.
Handles == {USIZE_MAX} \cup (0..len)

\* tree.push(xnode)
TreePush(xnode) ==
  /\ pc = "loop"
  /\ nodes' = Append(nodes, xnode)
  /\ depth' = Append(depth, 1)
  /\ UNCHANGED <<namespaces, namespace_map, readVars, inputVars, historyVars>>

\* Node { index: h }.push(&mut tree, xnode)
NodePush(h, xnode) ==
  /\ pc = "loop"
  /\ \E d \in Node_push_depths(h) : PushOrPanic(xnode, d)
  /\ UNCHANGED <<namespaces, namespace_map, node_stack, current_node,
                 inputVars, historyVars>>

NextStorage ==
  \/ \E xnode \in StoredNodes : len < MaxPushes /\ TreePush(xnode)
  \/ \E h \in Handles, xnode \in StoredNodes : len < MaxPushes /\ NodePush(h, xnode)

SpecStorage == Init /\ [][NextStorage]_vars

----------------------------------------------------------------------------
(* Vocabulary of the properties, stated on the state alone.                 *)

\* The depth the tree stores for handle h; 0 for the sentinel.
StoredDepth(h) == IF h = USIZE_MAX THEN 0 ELSE depth[h + 1]

\* The id the registry holds for an optional prefix.
ResolvedId(prefix) ==
  IF prefix = None THEN None
  ELSE IF prefix[1] \in DOMAIN namespace_map THEN Some(namespace_map[prefix[1]])
  ELSE None

\* Handle h is a Tag node stored with exactly this namespace id and name.
StoredTagIs(h, ns, local) ==
  /\ h # USIZE_MAX
  /\ h < Len(nodes)
  /\ nodes[h + 1].kind = "Tag"
  /\ nodes[h + 1].namespace = ns
  /\ nodes[h + 1].name = local

\* The end tag ev names the tag stored at handle h.
EndTagNames(ev, h) ==
  StoredTagIs(h,
              ResolvedId(IF ev.prefix = None THEN None
                         ELSE Some(from_utf8_or_empty(ev.prefix[1]))),
              from_utf8_or_empty(ev.local))

\* This step appended exactly one node, of kind k, below the current node.
AppendedChild(k) ==
  /\ Len(nodes') = Len(nodes) + 1
  /\ SubSeq(nodes', 1, Len(nodes)) = nodes
  /\ nodes'[Len(nodes')].kind = k
  /\ depth' = Append(depth, StoredDepth(current_node) + 1)

NodeKindOf(eventKind) ==
  IF eventKind = "PI" THEN "ProcessingInstruction" ELSE eventKind

----------------------------------------------------------------------------
(* The claims.                                                              *)

\* C1: for a properly nested event sequence (xmlns declarations included),
\* the EndTag that closes an element leaves `current` at the handle that was
\* current just before that element's StartTag and pops one stack entry, and
\* once every element is closed the stack is empty and `current` is the
\* sentinel.
EndTagAscendsOneLevel ==
  [][ (event'.kind = "End" /\ wellFormed') =>
        /\ current_node' = open[Len(open)].before
        /\ node_stack' = SubSeq(node_stack, 1, Len(node_stack) - 1)
        /\ (open' = <<>> => node_stack' = <<>> /\ current_node' = USIZE_MAX)
    ]_vars

\* C2: after every event of a properly nested sequence whose elements nest
\* at most 255 deep, a non-empty tree has depth[0] = 1 and every depth is at
\* most its predecessor's plus one.
DepthInvariantWellFormed ==
  (wellFormed /\ nesting <= 255 /\ Len(depth) > 0) =>
     /\ depth[1] = 1
     /\ \A i \in 2..Len(depth) : depth[i] <= depth[i - 1] + 1

\* C3: every stored depth is between 1 and 255, whatever the nesting: the
\* depth computed on an append never wraps around to 0.
StoredDepthsOneBased ==
  \A i \in DOMAIN depth : depth[i] >= 1 /\ depth[i] <= 255

\* C4: an EndTag that does not name the current node's stored tag (the
\* sentinel included) changes neither the tree, the registry, the stack nor
\* `current`, and produces no error.
MismatchedEndTagIgnored ==
  [][ (event'.kind = "End" /\ ~EndTagNames(event', current_node)) =>
        /\ UNCHANGED <<nodes, depth, namespaces, namespace_map>>
        /\ UNCHANGED <<node_stack, current_node>>
        /\ pc' = "loop"
    ]_vars

\* C4 witness: a mismatched EndTag was read while an ancestor on the stack
\* carries the name it closes, and `current` stayed below that ancestor.
MismatchedEndTagWitness ==
  /\ event.kind = "End"
  /\ pc = "loop"
  /\ current_node # USIZE_MAX
  /\ ~EndTagNames(event, current_node)
  /\ \E i \in DOMAIN node_stack : EndTagNames(event, node_stack[i])

\* C5: a StartTag pushes the old `current`, appends exactly one Tag node at
\* depth(old current) + 1 and makes it `current`; its index is the length of
\* the tree before the event.
StartTagAppendsChild ==
  [][ event'.kind = "Start" =>
        /\ node_stack' = Append(node_stack, current_node)
        /\ AppendedChild("Tag")
        /\ current_node' = Len(nodes)
    ]_vars

\* C6: an EmptyTag appends exactly one Tag node at depth(current) + 1 and
\* leaves `current` and the stack alone, so consecutive EmptyTags append
\* nodes of one depth.
EmptyTagAppendsSibling ==
  [][ event'.kind = "Empty" =>
        /\ AppendedChild("Tag")
        /\ UNCHANGED <<node_stack, current_node>>
        /\ (event.kind = "Empty" => depth'[Len(depth')] = depth[Len(depth)])
    ]_vars

\* C7: a Text, Comment or ProcessingInstruction event appends exactly one
\* node of its kind at depth(current) + 1 and leaves `current`, the stack and
\* the registry alone.
ContentAppendsChild ==
  [][ event'.kind \in {"Text", "Comment", "PI"} =>
        /\ AppendedChild(NodeKindOf(event'.kind))
        /\ UNCHANGED <<node_stack, current_node, namespaces, namespace_map>>
    ]_vars

\* C8: EndOfStream ends the run with Ok and the tree as it stood, whatever
\* is left on the stack, and no event is consumed after the return.
EndOfStreamReturnsTree ==
  [][ /\ event'.kind = "Eof" =>
           /\ pc' = "returned_ok"
           /\ UNCHANGED <<nodes, depth, namespaces, namespace_map>>
      /\ pc # "returned_ok"
    ]_vars

\* C8 witness: the run returned Ok with elements still open.
EndOfStreamWitness ==
  pc = "returned_ok" /\ Len(node_stack) >= 2 /\ Len(nodes) >= 2

\* C9: registering a known prefix returns the id of its first registration
\* whatever the uri, and leaves the registry (length, stored uri) unchanged.
RegisterIdempotent ==
  /\ \A i \in DOMAIN lastCalls :
       lastCalls[i].ret = Some(declFirst[lastCalls[i].prefix].id)
  /\ Len(namespaces) = Cardinality(DOMAIN declFirst)
  /\ \A p \in DOMAIN declFirst :
       /\ namespaces[declFirst[p].id + 1] = <<p, declFirst[p].uri>>
       /\ \A uri \in {"u1", "u2", "u3"} :
            add_namespace(Registry, p, uri) =
              [reg |-> Registry, ret |-> Some(declFirst[p].id)]

\* C9 witness: the default prefix, registered first, was registered again
\* with another uri after a second prefix, and got id 0 again.
RegisterIdempotentWitness ==
  /\ Len(namespaces) = 2
  /\ lastCalls = <<[prefix |-> "", uri |-> "u2", ret |-> Some(0)]>>
  /\ declFirst[""].uri = "u1"

\* C10 as stated: once a prefix was declared again with another uri, the
\* registry resolves it to the uri of the latest declaration.
LaterDeclarationRebinds ==
  \A p \in DOMAIN declLast \ {""} :
    get_namespace(Registry, find_namespace(Registry, Some(p)))
      = Some(<<p, declLast[p]>>)

\* C10 amended: a later xmlns:p declaration does not rebind p; the registry
\* keeps resolving p to the uri of its first declaration.
FirstDeclarationKept ==
  \A p \in DOMAIN declLast \ {""} :
    get_namespace(Registry, find_namespace(Registry, Some(p)))
      = Some(<<p, declFirst[p].uri>>)

\* C10 witness: a prefix declared with u1 was declared again with u2.
RedeclarationWitness ==
  \E p \in DOMAIN declLast \ {""} :
    declFirst[p].uri = "u1" /\ declLast[p] = "u2"

\* The registry is a bijection between its prefixes and the ids 0..n-1, and
\* both lookups agree with the first registration of every prefix.
RegistryConsistent ==
  /\ DOMAIN namespace_map = {namespaces[i][1] : i \in DOMAIN namespaces}
  /\ {namespace_map[p] : p \in DOMAIN namespace_map} = 0..(Len(namespaces) - 1)
  /\ Cardinality(DOMAIN namespace_map) = Len(namespaces)
  /\ DOMAIN declFirst = DOMAIN namespace_map
  /\ \A p \in DOMAIN namespace_map :
       /\ find_namespace(Registry, Some(p)) = Some(declFirst[p].id)
       /\ get_namespace(Registry, find_namespace(Registry, Some(p)))
            = Some(<<p, declFirst[p].uri>>)
  /\ \A p \in RegistryPrefixes \ DOMAIN namespace_map :
       find_namespace(Registry, Some(p)) = None

\* C11: after every registration the ids are exactly 0..n-1, distinct
\* prefixes (the empty one included) have distinct ids, looking a prefix up
\* and then its id gives the prefix with the uri of its first registration,
\* an unregistered prefix is absent; a prefix registered for the first time
\* gets the next id, and no stored (prefix, uri) or id changes.
RegistryIdsStable ==
  [][ /\ RegistryConsistent'
      /\ SubSeq(namespaces', 1, Len(namespaces)) = namespaces
      /\ \A p \in DOMAIN namespace_map : namespace_map'[p] = namespace_map[p]
      /\ \A p \in DOMAIN namespace_map' \ DOMAIN namespace_map :
           namespace_map'[p] = Len(namespaces)
    ]_vars

\* C11 witness: the default prefix was registered second, one prefix was
\* registered again with another uri, and one prefix is still unregistered.
RegistryIdsWitness ==
  /\ Len(namespaces) = 2
  /\ "" \in DOMAIN namespace_map
  /\ namespace_map[""] = 1
  /\ \E p \in DOMAIN declLast : declLast[p] # declFirst[p].uri
  /\ RegistryPrefixes \ DOMAIN namespace_map # {}

PrefixedTagGetsPrefixId ==
  [][ (event'.kind \in {"Start", "Empty"} /\ Len(nodes') = Len(nodes) + 1) =>
        LET stored == nodes'[Len(nodes')]
            p == from_utf8_or_empty(event'.prefix[1])
            declaresDefault == \E i \in DOMAIN lastCalls' : lastCalls'[i].prefix = ""
        IN  /\ (event'.prefix # None /\ p \in DOMAIN namespace_map') =>
                 stored.namespace = Some(namespace_map'[p])
            /\ (event'.prefix = None /\ ~declaresDefault) =>
                 stored.namespace = None
    ]_vars

\* The lowest index of a Tag stored with this namespace id and name, if any.
FirstTagWith(ns, local) ==
  LET S == {i \in 0..(Len(nodes) - 1) : StoredTagIs(i, ns, local)}
  IN  IF S = {} THEN None ELSE Some(CHOOSE i \in S : \A j \in S : i <= j)

\* C14: find_node on `prefix:local` returns the first Tag named local whose
\* namespace id is the id registered for prefix, and returns no match when
\* prefix is not registered, whatever the tree holds.
FindNodeResolvesPrefix ==
  \A target \in {t \in FindTargets : Len(t) >= 2} :
    find_node(target) =
      IF target[1] \in DOMAIN namespace_map
      THEN FirstTagWith(Some(namespace_map[target[1]]), target[2])
      ELSE None

\* The handles that are not valid: the sentinel, and indices at or past the
\* length of the tree.
InvalidHandles == {USIZE_MAX, Len(nodes), Len(nodes) + 1}

\* C15: in every state of the tree every query on the sentinel or on a
\* handle whose index is not below the length gives the empty result:
\* depth 0, subtree_end 0, no value, parent or sibling, no children,
\* ancestors or descendants, and compare_name false.
InvalidHandleQueriesEmpty ==
  \A h \in InvalidHandles :
    /\ Node_depth(h) = 0
    /\ value(h) = None
    /\ parent(h) = None
    /\ children(h) = {Some(<<>>)}
    /\ next_sibling(h) = None
    /\ prev_sibling(h) = None
    /\ ancestors(h) = <<>>
    /\ descendants(h) = <<>>
    /\ subtree_end(h) = 0
    /\ \A ns \in {None, Some(0)}, name \in {"", "a"} : ~compare_name(h, ns, name)

\* C15 witness: a tree whose last node has a parent and a previous sibling,
\* queried one index past that node.
InvalidHandleWitness ==
  /\ Len(nodes) >= 3
  /\ parent(Len(nodes) - 1) # None
  /\ prev_sibling(Len(nodes) - 1) # None
  /\ ~is_valid(Len(nodes))
  /\ parent(Len(nodes)) = None

\* C16: for every valid node n of a tree the builder made, parent(n) is
\* None when depth(n) <= 1 and otherwise the greatest index below n whose
\* depth is depth(n) - 1, and ancestors(n) lists depth(n) - 1 handles,
\* nearest first, with strictly decreasing index and depth.
ParentIsNearestShallower ==
  \A n \in 0..(Len(nodes) - 1) :
    LET d == depth[n + 1]
        shallower == {i \in 0..(n - 1) : depth[i + 1] = d - 1}
        a == ancestors(n)
    IN  /\ d <= 1 => parent(n) = None
        /\ d > 1 => /\ shallower # {}
                    /\ parent(n) # None
                    /\ parent(n)[1] \in shallower
                    /\ \A i \in shallower : i <= parent(n)[1]
        /\ Len(a) = d - 1
        /\ a # <<>> => a[1] < n /\ depth[a[1] + 1] < d /\ parent(n) = Some(a[1])
        /\ \A k \in 1..(Len(a) - 1) :
             a[k + 1] < a[k] /\ depth[a[k + 1] + 1] < depth[a[k] + 1]

\* C17: in any tree, for all valid nodes n and m, next_sibling(n) is m
\* exactly when prev_sibling(m) is n.
SiblingsAreInverse ==
  \A n \in 0..(Len(nodes) - 1), m \in 0..(Len(nodes) - 1) :
    next_sibling(n) = Some(m) <=> prev_sibling(m) = Some(n)

\* C17 witness: two siblings with the subtree of the first between them, in
\* a tree where a later node has no sibling on either side.
SiblingsWitness ==
  \E n \in 0..(Len(nodes) - 1), m \in 0..(Len(nodes) - 1) :
    /\ m >= n + 2
    /\ next_sibling(n) = Some(m)
    /\ prev_sibling(m) = Some(n)
    /\ \E k \in 0..(Len(nodes) - 1) :
         k > n /\ next_sibling(k) = None /\ prev_sibling(k) = None

\* The Tag node stored last holds no undecoded fragment: its name, its
\* attribute keys and its attribute values are decoded strings.
StoredTagDecoded(xnode) ==
  /\ xnode.name # INVALID
  /\ xnode.attributes # None =>
       \A k \in DOMAIN xnode.attributes[1] :
         k # INVALID /\ xnode.attributes[1][k].value # INVALID

\* C18: an event with a fragment that does not decode still appends its
\* node, with "" for the fragment, and read goes on: a Text or Comment with
\* such a content is stored with the content "", a tag with such a name, key
\* or value is stored with "" in its place.
DecodeFailureDegrades ==
  [][ /\ (event'.kind \in {"Text", "Comment"} /\ event'.raw = INVALID) =>
           /\ pc' = "loop"
           /\ AppendedChild(event'.kind)
           /\ nodes'[Len(nodes')].content = ""
      /\ (event'.kind \in {"Start", "Empty"} /\ event'.local = INVALID) =>
           /\ pc' = "loop"
           /\ AppendedChild("Tag")
           /\ nodes'[Len(nodes')].name = ""
           /\ StoredTagDecoded(nodes'[Len(nodes')])
    ]_vars

\* C19: when the tokenizer reports an error read returns it at that event,
\* whatever was appended before: the step ends the run with Err, which
\* carries no tree, appends nothing, and no event is read after it.
ReaderErrorEndsRead ==
  [][ /\ event'.kind = "Error" =>
           /\ pc' = "returned_err"
           /\ UNCHANGED <<nodes, depth, namespaces, namespace_map>>
      /\ pc # "returned_err"
    ]_vars

\* C19 witness: the tokenizer's error ended the run after nodes were
\* appended and with an element still open.
ReaderErrorWitness ==
  /\ event.kind = "Error"
  /\ pc = "returned_err"
  /\ Len(nodes) >= 2
  /\ node_stack # <<>>

\* C20: every step keeps or extends the tree by exactly one node at the
\* index equal to the previous length, nodes and depth stay parallel, and
\* the node and the depth stored at every existing index are unchanged; the
\* handle a StartTag makes current is that new index.
StorageAppendOnly ==
  [][ /\ Len(nodes') \in {Len(nodes), Len(nodes) + 1}
      /\ Len(depth') = Len(nodes')
      /\ \A i \in DOMAIN nodes : nodes'[i] = nodes[i] /\ depth'[i] = depth[i]
      /\ (event'.kind = "Start" /\ Len(nodes') = Len(nodes) + 1) =>
           current_node' = Len(nodes)
    ]_vars

\* C20 witness: a tree of three nodes of different kinds, the first two stored
\* before the last event appended the third.
StorageAppendOnlyWitness ==
  /\ Len(nodes) = 3
  /\ nodes[1].kind = "Tag"
  /\ nodes[2].kind # "Tag"
  /\ event.kind = "Start"
  /\ current_node = 2

\* C21: after any sequence of FlatTree::push and Node::push through the
\* sentinel or any valid handle, a non-empty tree has depth[0] = 1 and every
\* depth is at most its predecessor's plus one.
StorageDepthInvariant ==
  Len(depth) > 0 =>
    /\ depth[1] = 1
    /\ \A i \in 2..Len(depth) : depth[i] <= depth[i - 1] + 1

\* The attributes of tag e that are not namespace declarations, by position.
OrdinaryAttrs(e) ==
  {i \in DOMAIN e.attributes :
     /\ e.attributes[i].ok
     /\ key_from_utf8(e.attributes[i].key)[1] # "xmlns"}

\* The prefix and the local name of the attribute at position i of tag e.
AttrPrefix(e, i) ==
  LET key == key_from_utf8(e.attributes[i].key)
  IN  IF Len(key) >= 2 THEN Some(key[1]) ELSE None

AttrLocal(e, i) ==
  LET key == key_from_utf8(e.attributes[i].key)
  IN  key[Len(key)]

\* The attribute map of a stored tag, empty when the tag stores none.
StoredAttrs(xnode) ==
  IF xnode.attributes = None THEN <<>> ELSE xnode.attributes[1]

\* Tag e was read on this step: its node, as build_tag makes it from the
\* registry before the step, was appended.
TagRead(e) ==
  /\ event'.kind \in {"Start", "Empty"}
  /\ event'.prefix = e.prefix /\ event'.local = e.local
  /\ Len(nodes') = Len(nodes) + 1
  /\ nodes'[Len(nodes')] = build_tag(Registry, e).xnode
  /\ namespace_map' = build_tag(Registry, e).reg.namespace_map

\* C22: the attribute map stored for a tag has exactly the local names of
\* the tag's non-xmlns attributes as keys, and each attribute p:x that no
\* later attribute of the tag overwrites carries the id of p in the registry
\* after the tag (p registered earlier or by the tag's own xmlns:p, before
\* or after the attribute), and no id when p is unknown or absent.
AttributeGetsPrefixId ==
  [][ \A e \in AttrTags :
        TagRead(e) =>
          LET stored == StoredAttrs(nodes'[Len(nodes')])
          IN  /\ DOMAIN stored = {AttrLocal(e, i) : i \in OrdinaryAttrs(e)}
              /\ \A i \in OrdinaryAttrs(e) :
                   (\A j \in OrdinaryAttrs(e) :
                      AttrLocal(e, j) = AttrLocal(e, i) => j <= i) =>
                     stored[AttrLocal(e, i)].namespace =
                       IF /\ AttrPrefix(e, i) # None
                          /\ AttrPrefix(e, i)[1] \in DOMAIN namespace_map'
                       THEN Some(namespace_map'[AttrPrefix(e, i)[1]])
                       ELSE None
    ]_vars

\* Tag e without the attribute at position i.
WithoutAttr(e, i) ==
  [e EXCEPT !.attributes =
     SubSeq(e.attributes, 1, i - 1) \o SubSeq(e.attributes, i + 1, Len(e.attributes))]

\* The positions (i, j), i before j, of two ordinary attributes of tag e that
\* have the same local name.
Collisions(e) ==
  {c \in OrdinaryAttrs(e) \X OrdinaryAttrs(e) :
     c[1] < c[2] /\ AttrLocal(e, c[1]) = AttrLocal(e, c[2])}

\* C23: when two attributes of a tag have the same local name, the stored
\* map has one entry for that name, with the value of the later attribute
\* and the entry the tag would store without the earlier attribute.
LaterAttributeOverwrites ==
  [][ \A e \in AttrTags :
        TagRead(e) =>
          \A c \in Collisions(e) :
            LET stored == StoredAttrs(nodes'[Len(nodes')])
                x == AttrLocal(e, c[2])
                alone == StoredAttrs(build_tag(Registry, WithoutAttr(e, c[1])).xnode)
            IN  /\ x \in DOMAIN stored
                /\ Cardinality(DOMAIN stored) =
                     Cardinality({AttrLocal(e, i) : i \in OrdinaryAttrs(e)})
                /\ stored[x].value = from_utf8_or_empty(e.attributes[c[2]].value)
                /\ stored[x] = alone[x]
    ]_vars

\* C23 witness: <a x="1" p:x="2"> was read after p was registered, and x is
\* stored once with the value and the namespace id of p:x.
LaterAttributeWitness ==
  /\ event.kind \in {"Start", "Empty"}
  /\ "p" \in DOMAIN namespace_map
  /\ Len(nodes) >= 2
  /\ nodes[Len(nodes)].attributes =
       Some(("x" :> [namespace |-> Some(namespace_map["p"]), value |-> "2"]))

\* The stack read from its top to its bottom.
StackTopDown ==
  [i \in 1..Len(node_stack) |-> node_stack[Len(node_stack) + 1 - i]]

\* seq is what Node::ancestors returns for h: the parent of h, then the
\* parent of each entry, up to the entry that has no parent.
AncestorsAre(h, seq) ==
  /\ parent(h) = IF seq = <<>> THEN None ELSE Some(seq[1])
  /\ \A i \in DOMAIN seq :
       parent(seq[i]) = IF i < Len(seq) THEN Some(seq[i + 1]) ELSE None

\* C24: in every state of read on an input nesting at most 255 deep,
\* `current` is the sentinel or a valid handle of a Tag, every stack entry is
\* the sentinel or a valid handle, the stack is as long as depth(current),
\* below a valid `current` it is ancestors(current) followed by the sentinel
\* from top to bottom, and it is not empty when `current` is a tag that an
\* EndTag could match.  A read that panicked has no state left to look at.
BuilderStateConsistent ==
  nesting <= 255 /\ pc # "panicked" =>
    /\ \/ current_node = USIZE_MAX
       \/ is_valid(current_node) /\ nodes[current_node + 1].kind = "Tag"
    /\ \A i \in DOMAIN node_stack :
         node_stack[i] = USIZE_MAX \/ is_valid(node_stack[i])
    /\ Len(node_stack) = Node_depth(current_node)
    /\ is_valid(current_node) =>
         /\ node_stack # <<>>
         /\ StackTopDown[Len(node_stack)] = USIZE_MAX
         /\ AncestorsAre(current_node,
                         SubSeq(StackTopDown, 1, Len(node_stack) - 1))

\* The valid handles of the tree.
ValidHandles == 0..(len - 1)

\* The handles among the last MaxNodes + 1 nodes: every valid handle of a
\* tree of the general specification, the end of a deep tree.
RecentHandles == {h \in ValidHandles : h + MaxNodes + 1 >= len}

\* The handles in a list of nodes.
HandlesOf(list) == {list[i] : i \in DOMAIN list}

\* C25: in every tree read builds, navigation is consistent with itself: for
\* valid p and n, children(p) returns a list and n is in it if and only if
\* parent(n) = p; n is in descendants(p) if and only if p is in ancestors(n),
\* stated through the loop of Node::ancestors, whose list for n is parent(n)
\* followed by its list for parent(n); and n and next_sibling(n) have the
\* same parent.  The nodes p, and the n of next_sibling, are the recent ones.
NavigationConsistent ==
  LET parentOf == [n \in ValidHandles |-> parent(n)]
  IN  /\ \A p \in RecentHandles :
           \A c \in children(p) :
             /\ c # None
             /\ HandlesOf(c[1]) = {n \in ValidHandles : parentOf[n] = Some(p)}
      /\ \A p \in RecentHandles :
           LET below == HandlesOf(descendants(p))
           IN  \A n \in ValidHandles :
                 n \in below <=>
                   /\ parentOf[n] # None
                   /\ parentOf[n][1] = p \/ parentOf[n][1] \in below
      /\ \A n \in RecentHandles :
           next_sibling(n) # None =>
             parentOf[next_sibling(n)[1]] = parentOf[n]

====
